---- MODULE Spec2Model ----
(***************************************************************************)
(* Model of the Cloudflare Worker in cdn-examples/server/auth0/index.js:   *)
(* one invocation of the exported fetch handler, stepped at its suspension *)
(* points (origin fetch, verify POST, health GET), together with the pure  *)
(* helpers it calls (getCookie, checkArkoseStatus, verifyArkoseToken,      *)
(* checkResponse, injectArkose, handleFailure).                            *)
(*                                                                         *)
(* JavaScript strings are sequences of one-character strings; JavaScript   *)
(* values that may be null or undefined are records [type, value].         *)
(***************************************************************************)
EXTENDS Integers, Sequences, FiniteSets, TLC

VARIABLES request, env, pc, token, currentRetry, verifyStatus,
          originResponse, result, trace, lastVerifyReply, lastHealthReply,
          lastHealthy,
          cookie, chain, conc, client

\* the state of one handler invocation
handlerVars == <<request, env, pc, token, currentRetry, verifyStatus,
                 originResponse, result, trace, lastVerifyReply, lastHealthReply,
                 lastHealthy>>

\* the state of the separate developments: a call of getCookie, a retry
\* chain configured by parseNumber, two concurrent invocations, and the
\* injected client script
otherVars == <<cookie, chain, conc, client>>

vars == <<handlerVars, otherVars>>

(***************************************************************************)
(* Bounds and program constants                                            *)
(***************************************************************************)
\* largest verifyMaxRetryCount the model configures
MaxRetry == 2

\* the retry chain is followed for at most MaxRetry + 2 verify attempts
MaxChain == MaxRetry + 1

\* status of a redirect the injector must not rewrite
StatusFound == 302

\* status of the redirect to errorUrl
StatusMovedPermanently == 301

(***************************************************************************)
(* JavaScript values                                                       *)
(***************************************************************************)
JSNull == [type |-> "null", value |-> <<>>]

JSUndefined == [type |-> "undefined", value |-> <<>>]

JSString(s) == [type |-> "string", value |-> s]

\* truthiness of a value that is null, undefined or a string
Truthy(v) == v.type = "string" /\ v.value # <<>>

(***************************************************************************)
(* String helpers (String.prototype.includes / split)                      *)
(***************************************************************************)
MatchesAt(s, p, i) ==
    /\ i >= 1
    /\ i + Len(p) - 1 <= Len(s)
    /\ SubSeq(s, i, i + Len(p) - 1) = p

\* 1-based index of the first occurrence of the non-empty p in s, 0 if none
IndexOf(s, p) ==
    IF \E i \in 1..Len(s) : MatchesAt(s, p, i)
    THEN CHOOSE i \in 1..Len(s) :
            /\ MatchesAt(s, p, i)
            /\ \A j \in 1..(i - 1) : ~MatchesAt(s, p, j)
    ELSE 0

Includes(s, p) == IndexOf(s, p) # 0

RECURSIVE Split(_, _)
\* s.split(sep) for a non-empty separator: every occurrence, left to right
Split(s, sep) ==
    LET i == IndexOf(s, sep)
    IN  IF i = 0
        THEN <<s>>
        ELSE <<SubSeq(s, 1, i - 1)>> \o Split(SubSeq(s, i + Len(sep), Len(s)), sep)

\* Array.prototype.find: index of the first element satisfying includes(key)
FindIncluding(parts, key) ==
    IF \E i \in 1..Len(parts) : Includes(parts[i], key)
    THEN CHOOSE i \in 1..Len(parts) :
            /\ Includes(parts[i], key)
            /\ \A j \in 1..(i - 1) : ~Includes(parts[j], key)
    ELSE 0

(***************************************************************************)
(* getCookie                                                               *)
(***************************************************************************)
getCookie(cookieString, cookieKey) ==
    IF Truthy(cookieString)
    THEN LET allCookies == Split(cookieString.value, <<";", " ">>)
             t == FindIncluding(allCookies, cookieKey)
         IN  IF t # 0 /\ allCookies[t] # <<>>
             THEN LET pieces == Split(allCookies[t], cookieKey \o <<"=">>)
                  IN  IF Len(pieces) >= 2 THEN JSString(pieces[2]) ELSE JSUndefined
             ELSE JSNull
    ELSE JSNull

\* the handler's test  arkoseToken && arkoseToken !== ''
TokenPresent(arkoseToken) == Truthy(arkoseToken) /\ arkoseToken.value # <<>>

(***************************************************************************)
(* Replies of the outbound calls                                           *)
(***************************************************************************)
\* what the verify POST can produce: a transport failure, a body that is
\* not JSON, the JSON value null, or a JSON object with or without a truthy
\* session_details and a truthy session_details.solved
VerifyReplies ==
    { [net |-> "error", json |-> "none",    data |-> "none",   session_details |-> FALSE, solved |-> FALSE],
      [net |-> "ok",    json |-> "invalid", data |-> "none",   session_details |-> FALSE, solved |-> FALSE],
      [net |-> "ok",    json |-> "ok",      data |-> "null",   session_details |-> FALSE, solved |-> FALSE],
      [net |-> "ok",    json |-> "ok",      data |-> "object", session_details |-> FALSE, solved |-> FALSE],
      [net |-> "ok",    json |-> "ok",      data |-> "object", session_details |-> TRUE,  solved |-> FALSE],
      [net |-> "ok",    json |-> "ok",      data |-> "object", session_details |-> TRUE,  solved |-> TRUE] }

NoVerifyReply ==
    [net |-> "none", json |-> "none", data |-> "none", session_details |-> FALSE, solved |-> FALSE]

\* what the status GET can produce: a transport failure, a body that is not
\* JSON, the JSON value null, an object without status, an object whose
\* status has no indicator, or an object with status.indicator
Indicators == {"none", "minor", "major", "critical"}

HealthReplies ==
    { [net |-> "error", json |-> "none",    data |-> "none",   status |-> "none",   indicator |-> "absent"],
      [net |-> "ok",    json |-> "invalid", data |-> "none",   status |-> "none",   indicator |-> "absent"],
      [net |-> "ok",    json |-> "ok",      data |-> "null",   status |-> "none",   indicator |-> "absent"],
      [net |-> "ok",    json |-> "ok",      data |-> "object", status |-> "absent", indicator |-> "absent"],
      [net |-> "ok",    json |-> "ok",      data |-> "object", status |-> "object", indicator |-> "absent"] }
    \cup
    { [net |-> "ok", json |-> "ok", data |-> "object", status |-> "object", indicator |-> i] :
        i \in Indicators }

NoHealthReply ==
    [net |-> "none", json |-> "none", data |-> "none", status |-> "none", indicator |-> "absent"]

\* statuses the origin answers with: an ordinary page, or a redirect
OriginStatuses == {200, StatusFound}

\* what the origin fetch can produce: a transport failure, or a response
\* with a status and a body that has a body element or not
OriginReplies ==
    { [net |-> "error", status |-> 0, hasBody |-> FALSE] }
    \cup
    { [net |-> "ok", status |-> st, hasBody |-> b] :
        st \in OriginStatuses, b \in BOOLEAN }

NoResponse == [net |-> "none", status |-> 0, hasBody |-> FALSE]

(***************************************************************************)
(* checkArkoseStatus                                                       *)
(***************************************************************************)
\* the try block throws: fetch rejects, json() rejects, or
\* healthJson.status.indicator reads a property of null or undefined
StatusThrows(reply) ==
    \/ reply.net = "error"
    \/ reply.json = "invalid"
    \/ reply.data = "null"
    \/ reply.status = "absent"

checkArkoseStatus(reply) ==
    IF StatusThrows(reply)
    THEN FALSE
    ELSE ~(reply.indicator = "critical")

(***************************************************************************)
(* verifyArkoseToken                                                       *)
(***************************************************************************)
\* the try block throws: fetch rejects, json() rejects, or
\* data.session_details reads a property of null
VerifyThrows(reply) ==
    \/ reply.net = "error"
    \/ reply.json = "invalid"
    \/ reply.data = "null"

\* mutant: verified as soon as session_details is there
Solved_ignoresSolved(reply) == reply.session_details

\* data.session_details && data.session_details.solved
Solved(reply) == reply.session_details /\ reply.solved

\* mutant: arkoseStatus starts out false
TryOutcome_statusFalse(reply) == [verified |-> Solved(reply), arkoseStatus |-> FALSE]

\* what the try block returns: verified as found, arkoseStatus still true
TryOutcome(reply) == [verified |-> Solved(reply), arkoseStatus |-> TRUE]

\* mutant: the chain ends one retry late
RetryExhausted_late(retry, verifyMaxRetryCount) == retry = verifyMaxRetryCount + 1

\* the test that ends the retry chain
RetryExhausted(retry, verifyMaxRetryCount) == retry = verifyMaxRetryCount

\* mutant: the catch block retries without looking at the platform status
CatchDecision_ignoreStatus(arkoseStatus, retry, verifyMaxRetryCount) ==
    IF RetryExhausted(retry, verifyMaxRetryCount) THEN "return" ELSE "retry"

\* the catch block after the health check: "return" or "retry"
CatchDecision(arkoseStatus, retry, verifyMaxRetryCount) ==
    IF arkoseStatus
    THEN IF RetryExhausted(retry, verifyMaxRetryCount) THEN "return" ELSE "retry"
    ELSE "return"

(***************************************************************************)
(* Response handling                                                       *)
(***************************************************************************)
NoResult == [kind |-> "none", status |-> 0, injected |-> FALSE]

handleFailure == [kind |-> "redirect", status |-> StatusMovedPermanently, injected |-> FALSE]

\* HTMLRewriter appends the script to the body element when there is one
injectArkose(response) ==
    [kind |-> "origin", status |-> response.status, injected |-> response.hasBody]

checkResponse(response) ==
    IF response.status = StatusFound
    THEN [kind |-> "origin", status |-> response.status, injected |-> FALSE]
    ELSE injectArkose(response)

\* mutant: the verified branch is missing
HandleVerifyStatus_noVerified(verified, arkoseStatus, failOpen, tokenEnforcement) ==
    IF ~arkoseStatus /\ failOpen THEN "fetch"
    ELSE IF tokenEnforcement THEN "redirect"
    ELSE "fetch"

\* mutant: the fail-open branch is missing
HandleVerifyStatus_noFailOpen(verified, arkoseStatus, failOpen, tokenEnforcement) ==
    IF verified THEN "fetch"
    ELSE IF tokenEnforcement THEN "redirect"
    ELSE "fetch"

\* mutant: failOpen passes every unverified token, outage or not
HandleVerifyStatus_alwaysOpen(verified, arkoseStatus, failOpen, tokenEnforcement) ==
    IF verified THEN "fetch"
    ELSE IF failOpen THEN "fetch"
    ELSE IF tokenEnforcement THEN "redirect"
    ELSE "fetch"

\* the handler's branches after verifyArkoseToken returned: "fetch" or "redirect"
HandleVerifyStatus(verified, arkoseStatus, failOpen, tokenEnforcement) ==
    IF verified THEN "fetch"
    ELSE IF ~arkoseStatus /\ failOpen THEN "fetch"
    ELSE IF tokenEnforcement THEN "redirect"
    ELSE "fetch"

\* the handler's branch when no token is found: "fetch" or "redirect"
HandleNoToken(tokenEnforcement) ==
    IF tokenEnforcement THEN "redirect" ELSE "fetch"

(***************************************************************************)
(* Requests and environment                                                *)
(***************************************************************************)
\* env.arkoseCookieName
CookieName == <<"k">>

\* request.headers.get('Cookie'): absent, or one of
\*   "k=t"  "k="  "k"  "a=t"  "ak=u"  "a=u; k=t"
CookieHeaders ==
    { JSNull,
      JSString(<<"k", "=", "t">>),
      JSString(<<"k", "=">>),
      JSString(<<"k">>),
      JSString(<<"a", "=", "t">>),
      JSString(<<"a", "k", "=", "u">>),
      JSString(<<"a", "=", "u", ";", " ", "k", "=", "t">>) }

Requests == [method : {"GET", "POST"}, cookie : CookieHeaders]

\* the parsed configuration; verifyMaxRetryCount is any integer parseNumber
\* can return, here -1 .. MaxRetry
Envs ==
    [tokenEnforcement : BOOLEAN,
     failOpen : BOOLEAN,
     usingDX : BOOLEAN,
     secretKeyBase64 : {"unset", "set"},
     verifyMaxRetryCount : (0 - 1)..MaxRetry]

\* the separate developments at rest
CookieIdle == [pc |-> "idle"]

ChainIdle == [pc |-> "idle"]

ConcIdle == [pc |-> "idle"]

ClientIdle == [pc |-> "idle"]

NoVerifyStatus == [returned |-> FALSE, verified |-> FALSE, arkoseStatus |-> TRUE]

Init ==
    /\ request \in Requests
    /\ env \in Envs
    /\ pc = "start"
    /\ token = <<>>
    /\ currentRetry = 0
    /\ verifyStatus = NoVerifyStatus
    /\ originResponse = NoResponse
    /\ result = NoResult
    /\ trace = <<>>
    /\ lastVerifyReply = NoVerifyReply
    /\ lastHealthReply = NoHealthReply
    /\ lastHealthy = "none"
    /\ cookie = CookieIdle
    /\ chain = ChainIdle
    /\ conc = ConcIdle
    /\ client = ClientIdle

(***************************************************************************)
(* The fetch handler                                                       *)
(***************************************************************************)
\* verifyArkoseToken returned status to the handler, whose trace so far is tr
ReturnToHandler(status, tr) ==
    /\ verifyStatus' = [returned |-> TRUE, verified |-> status.verified,
                        arkoseStatus |-> status.arkoseStatus]
    /\ IF HandleVerifyStatus(status.verified, status.arkoseStatus,
                             env.failOpen, env.tokenEnforcement) = "fetch"
       THEN /\ pc' = "origin"
            /\ trace' = Append(tr, "origin")
            /\ result' = result
       ELSE /\ pc' = "done"
            /\ trace' = tr
            /\ result' = handleFailure

\* the handler up to its first outbound call
Start ==
    /\ pc = "start"
    /\ IF env.secretKeyBase64 = "unset"
       THEN \* Buffer.from(undefined, 'base64') throws
            /\ pc' = "threw"
            /\ UNCHANGED <<token, result, trace>>
       ELSE IF request.method = "GET"
       THEN /\ pc' = IF env.usingDX THEN "get_scan" ELSE "get_fetch"
            /\ trace' = Append(trace, "origin")
            /\ UNCHANGED <<token, result>>
       ELSE LET arkoseToken == getCookie(request.cookie, CookieName)
            IN  IF TokenPresent(arkoseToken)
                THEN /\ token' = arkoseToken.value
                     /\ pc' = "verify"
                     /\ trace' = Append(trace, "verify")
                     /\ result' = result
                ELSE IF HandleNoToken(env.tokenEnforcement) = "redirect"
                THEN /\ pc' = "done"
                     /\ result' = handleFailure
                     /\ UNCHANGED <<token, trace>>
                ELSE /\ pc' = "origin"
                     /\ trace' = Append(trace, "origin")
                     /\ UNCHANGED <<token, result>>
    /\ UNCHANGED <<request, env, currentRetry, verifyStatus, originResponse,
                   lastVerifyReply, lastHealthReply, lastHealthy>>
    /\ UNCHANGED otherVars

\* the verify POST settles: the try block of verifyArkoseToken
VerifyReply ==
    /\ pc = "verify"
    /\ \E reply \in VerifyReplies :
        /\ lastVerifyReply' = reply
        /\ IF VerifyThrows(reply)
           THEN /\ pc' = "health"
                /\ trace' = trace \o <<"verify:throw", "health">>
                /\ UNCHANGED <<verifyStatus, result>>
           ELSE ReturnToHandler(TryOutcome(reply), Append(trace, "verify:ok"))
    /\ UNCHANGED <<request, env, token, currentRetry, originResponse,
                   lastHealthReply, lastHealthy>>
    /\ UNCHANGED otherVars

\* the status GET settles: the catch block of verifyArkoseToken
HealthReply ==
    /\ pc = "health"
    /\ \E reply \in HealthReplies :
        LET arkoseStatus == checkArkoseStatus(reply)
            tr == Append(trace, IF arkoseStatus THEN "health:true" ELSE "health:false")
        IN  /\ lastHealthReply' = reply
            /\ lastHealthy' = IF arkoseStatus THEN "true" ELSE "false"
            /\ IF CatchDecision(arkoseStatus, currentRetry, env.verifyMaxRetryCount) = "retry"
               THEN /\ currentRetry < MaxChain
                    /\ currentRetry' = currentRetry + 1
                    /\ pc' = "verify"
                    /\ trace' = Append(tr, "verify")
                    /\ UNCHANGED <<verifyStatus, result>>
               ELSE /\ ReturnToHandler([verified |-> FALSE, arkoseStatus |-> arkoseStatus], tr)
                    /\ UNCHANGED currentRetry
    /\ UNCHANGED <<request, env, token, originResponse, lastVerifyReply>>
    /\ UNCHANGED otherVars

\* the origin fetch of a non-GET request settles
OriginReply ==
    /\ pc = "origin"
    /\ \E reply \in OriginReplies :
        IF reply.net = "error"
        THEN /\ pc' = "threw"
             /\ trace' = Append(trace, "origin:error")
             /\ UNCHANGED <<originResponse, result>>
        ELSE /\ pc' = "done"
             /\ trace' = Append(trace, "origin:ok")
             /\ originResponse' = reply
             /\ result' = checkResponse(reply)
    /\ UNCHANGED <<request, env, token, currentRetry, verifyStatus,
                   lastVerifyReply, lastHealthReply, lastHealthy>>
    /\ UNCHANGED otherVars

\* the first origin fetch of a GET request with data exchange settles
GetScanReply ==
    /\ pc = "get_scan"
    /\ \E reply \in OriginReplies :
        IF reply.net = "error"
        THEN /\ pc' = "threw"
             /\ trace' = Append(trace, "origin:error")
        ELSE /\ pc' = "get_fetch"
             /\ trace' = trace \o <<"origin:ok", "origin">>
    /\ UNCHANGED <<request, env, token, currentRetry, verifyStatus, originResponse,
                   result, lastVerifyReply, lastHealthReply, lastHealthy>>
    /\ UNCHANGED otherVars

\* the origin fetch whose response a GET request injects settles
GetFetchReply ==
    /\ pc = "get_fetch"
    /\ \E reply \in OriginReplies :
        IF reply.net = "error"
        THEN /\ pc' = "threw"
             /\ trace' = Append(trace, "origin:error")
             /\ UNCHANGED <<originResponse, result>>
        ELSE /\ pc' = "done"
             /\ trace' = Append(trace, "origin:ok")
             /\ originResponse' = reply
             /\ result' = injectArkose(reply)
    /\ UNCHANGED <<request, env, token, currentRetry, verifyStatus,
                   lastVerifyReply, lastHealthReply, lastHealthy>>
    /\ UNCHANGED otherVars

Next ==
    \/ Start
    \/ VerifyReply
    \/ HealthReply
    \/ OriginReply
    \/ GetScanReply
    \/ GetFetchReply

Spec == Init /\ [][Next]_vars

(***************************************************************************)
(* Observations on the trace                                               *)
(***************************************************************************)
RECURSIVE Count(_, _)
Count(tr, e) ==
    IF tr = <<>> THEN 0
    ELSE (IF Head(tr) = e THEN 1 ELSE 0) + Count(Tail(tr), e)

verifyAttempts == Count(trace, "verify")

healthChecks == Count(trace, "health")

originFetches == Count(trace, "origin")

TypeOK ==
    /\ request \in Requests
    /\ env \in Envs
    /\ pc \in {"start", "verify", "health", "origin", "get_scan", "get_fetch", "done", "threw"}
    /\ currentRetry \in 0..(MaxChain + 1)
    /\ lastHealthy \in {"none", "true", "false"}

(***************************************************************************)
(* Properties                                                              *)
(***************************************************************************)
\* every verify POST so far failed
AllVerifyFailed == Count(trace, "verify:ok") = 0

\* every health check so far reported healthy
AllHealthy == Count(trace, "health:false") = 0

\* the response returned is the origin response under the injection policy:
\* status kept, script appended to the body element unless the status is 302
InjectionPolicyApplied ==
    /\ result.kind = "origin"
    /\ result.status = originResponse.status
    /\ result.injected = (originResponse.hasBody /\ originResponse.status # StatusFound)

\* the origin answered the handler's fetch with a response
OriginAnswered == trace # <<>> /\ trace[Len(trace)] = "origin:ok"

\* the origin fetch is the last outbound call: no verify or health call follows it
OriginFetchLast ==
    \A i, j \in 1..Len(trace) :
        (trace[i] = "origin" /\ trace[j] \in {"verify", "health"}) => j < i

\* C1: for N >= 0, while every verify POST fails and every health check
\* reports healthy, at most N+1 verify attempts are made, and after the
\* (N+1)-th of them the chain has returned {verified: false,
\* platformHealthy: true}.
C1_BoundedRetries ==
    (env.verifyMaxRetryCount >= 0 /\ AllVerifyFailed /\ AllHealthy) =>
        /\ verifyAttempts <= env.verifyMaxRetryCount + 1
        /\ healthChecks <= env.verifyMaxRetryCount + 1
        /\ Count(trace, "health:true") = env.verifyMaxRetryCount + 1 =>
              verifyStatus = [returned |-> TRUE, verified |-> FALSE, arkoseStatus |-> TRUE]
        /\ verifyStatus.returned =>
              /\ verifyStatus = [returned |-> TRUE, verified |-> FALSE, arkoseStatus |-> TRUE]
              /\ verifyAttempts = env.verifyMaxRetryCount + 1

C1_Witness ==
    /\ env.verifyMaxRetryCount = MaxRetry
    /\ AllVerifyFailed
    /\ AllHealthy
    /\ verifyStatus = [returned |-> TRUE, verified |-> FALSE, arkoseStatus |-> TRUE]
    /\ verifyAttempts = MaxRetry + 1

\* C2: once a health check (made after a failed verify attempt) reports
\* unhealthy, the chain has returned {verified: false, platformHealthy:
\* false} and makes no further verify attempt or health check; when that
\* happens on the first attempt the chain is one verify attempt and one
\* health check.
C2_OutageStopsChain ==
    lastHealthy = "false" =>
        /\ verifyStatus = [returned |-> TRUE, verified |-> FALSE, arkoseStatus |-> FALSE]
        /\ pc \notin {"verify", "health"}
        /\ verifyAttempts = currentRetry + 1
        /\ healthChecks = currentRetry + 1
        /\ currentRetry = 0 => (verifyAttempts = 1 /\ healthChecks = 1)

C2_Witness ==
    /\ lastHealthy = "false"
    /\ currentRetry = 0
    /\ env.verifyMaxRetryCount = MaxRetry
    /\ verifyAttempts = 1
    /\ healthChecks = 1
    /\ verifyStatus = [returned |-> TRUE, verified |-> FALSE, arkoseStatus |-> FALSE]

\* the verify POST returned a body that parses as JSON
Parseable(reply) == reply.net = "ok" /\ reply.json = "ok"

\* the reply carries session_details with a truthy solved
SolvedTruthy(reply) ==
    /\ reply.data = "object"
    /\ reply.session_details = TRUE
    /\ reply.solved = TRUE

\* C3 (as claimed): after a verify POST that returned a parseable response
\* the chain has returned {verified: solved is truthy, platformHealthy:
\* true}, and no further verify attempt or health check is made.
C3_ParseableReturnsAtOnce ==
    Parseable(lastVerifyReply) =>
        /\ verifyStatus = [returned |-> TRUE, verified |-> SolvedTruthy(lastVerifyReply),
                           arkoseStatus |-> TRUE]
        /\ pc \notin {"verify", "health"}
        /\ healthChecks = currentRetry

\* Where the code does return at once: after a verify POST that returned a
\* parseable response whose JSON value is not null the chain has returned
\* {verified: solved is truthy, platformHealthy: true}, and no further
\* verify attempt or health check is made.
C3_NonNullReturnsAtOnce ==
    (Parseable(lastVerifyReply) /\ lastVerifyReply.data # "null") =>
        /\ verifyStatus = [returned |-> TRUE, verified |-> SolvedTruthy(lastVerifyReply),
                           arkoseStatus |-> TRUE]
        /\ pc \notin {"verify", "health"}
        /\ verifyAttempts = currentRetry + 1
        /\ healthChecks = currentRetry

ParseableReturned ==
    /\ Parseable(lastVerifyReply)
    /\ lastVerifyReply.session_details
    /\ ~lastVerifyReply.solved
    /\ currentRetry < env.verifyMaxRetryCount
    /\ verifyStatus = [returned |-> TRUE, verified |-> FALSE, arkoseStatus |-> TRUE]

\* the handler found no token in the request's Cookie header
NoToken == ~TokenPresent(getCookie(request.cookie, CookieName))

\* C4 (as claimed): a non-GET request without a token is answered, with
\* tokenEnforcement on, by the 301 redirect to errorUrl with no origin fetch
\* and no verify call; with tokenEnforcement off the origin is fetched once
\* and its response is returned under the injection policy.
C4_NoTokenBranch ==
    (request.method # "GET" /\ NoToken /\ pc # "start") =>
        IF env.tokenEnforcement
        THEN /\ pc = "done"
             /\ result = handleFailure
             /\ originFetches = 0
             /\ verifyAttempts = 0
        ELSE /\ verifyAttempts = 0
             /\ originFetches = 1
             /\ result.kind # "redirect"
             /\ OriginAnswered => (pc = "done" /\ InjectionPolicyApplied)

\* Where the no-token branch is reached: with secretKeyBase64 set, a non-GET
\* request without a token gets the 301 redirect and no outbound call when
\* tokenEnforcement is on, and one origin fetch under the injection policy
\* when it is off.
NoTokenBranchPastConfig ==
    (request.method # "GET" /\ NoToken /\ pc # "start" /\ env.secretKeyBase64 = "set") =>
        IF env.tokenEnforcement
        THEN /\ pc = "done"
             /\ result = handleFailure
             /\ trace = <<>>
        ELSE /\ verifyAttempts = 0
             /\ originFetches = 1
             /\ result.kind # "redirect"
             /\ OriginAnswered => (pc = "done" /\ InjectionPolicyApplied)

\* C5: for a non-GET request whose verification chain returned verified =
\* true, whatever tokenEnforcement and failOpen are, the origin is fetched
\* exactly once, no verify or health call follows that fetch, the response
\* the origin answers with is returned under the injection policy, and no
\* redirect is returned; and no origin fetch is made while the chain of a
\* request with a token has not returned.
C5_VerifiedFetchesOnce ==
    /\ (request.method # "GET" /\ verifyStatus.returned /\ verifyStatus.verified) =>
          /\ originFetches = 1
          /\ OriginFetchLast
          /\ result.kind # "redirect"
          /\ OriginAnswered => (pc = "done" /\ InjectionPolicyApplied)
    /\ (request.method # "GET" /\ verifyAttempts > 0 /\ ~verifyStatus.returned) =>
          originFetches = 0

C5_Witness ==
    /\ request.method # "GET"
    /\ verifyStatus.returned
    /\ verifyStatus.verified
    /\ env.tokenEnforcement
    /\ ~env.failOpen
    /\ pc = "done"
    /\ originFetches = 1
    /\ result = [kind |-> "origin", status |-> 200, injected |-> TRUE]

\* C6: for a non-GET request whose verification chain returned {verified:
\* false, platformHealthy: false} with failOpen on, also with
\* tokenEnforcement on, the origin is fetched once, the response the origin
\* answers with is returned under the injection policy, and the redirect to
\* errorUrl is never returned.
C6_FailOpenPasses ==
    (request.method # "GET" /\ verifyStatus.returned /\ ~verifyStatus.verified
        /\ ~verifyStatus.arkoseStatus /\ env.failOpen) =>
        /\ originFetches = 1
        /\ OriginFetchLast
        /\ result.kind # "redirect"
        /\ OriginAnswered => (pc = "done" /\ InjectionPolicyApplied)

C6_Witness ==
    /\ request.method # "GET"
    /\ verifyStatus = [returned |-> TRUE, verified |-> FALSE, arkoseStatus |-> FALSE]
    /\ env.failOpen
    /\ env.tokenEnforcement
    /\ pc = "done"
    /\ result = [kind |-> "origin", status |-> 200, injected |-> TRUE]

\* C7: for a non-GET request whose verification chain returned verified =
\* false with the platform healthy, or unhealthy with failOpen off: with
\* tokenEnforcement on the redirect to errorUrl is returned and the origin is
\* never fetched; with tokenEnforcement off the origin is fetched once and
\* the response it answers with is returned under the injection policy.
C7_UnverifiedBranch ==
    (request.method # "GET" /\ verifyStatus.returned /\ ~verifyStatus.verified
        /\ (verifyStatus.arkoseStatus \/ ~env.failOpen)) =>
        IF env.tokenEnforcement
        THEN /\ pc = "done"
             /\ result = handleFailure
             /\ originFetches = 0
        ELSE /\ originFetches = 1
             /\ OriginFetchLast
             /\ result.kind # "redirect"
             /\ OriginAnswered => (pc = "done" /\ InjectionPolicyApplied)

C7_Witness ==
    /\ request.method # "GET"
    /\ verifyStatus = [returned |-> TRUE, verified |-> FALSE, arkoseStatus |-> TRUE]
    /\ env.failOpen
    /\ env.tokenEnforcement
    /\ pc = "done"
    /\ result = handleFailure
    /\ originFetches = 0

\* C8 (as claimed): a handler invocation never ends by propagating an error
\* to its caller.
C8_NeverThrows == pc # "threw"

\* C9 (as claimed): an origin response with status 302 that reached the
\* injector is returned unmodified, for GET and non-GET requests alike.
C9_FoundUnmodified ==
    (pc = "done" /\ result.kind = "origin" /\ originResponse.status = StatusFound) =>
        result = [kind |-> "origin", status |-> StatusFound, injected |-> FALSE]

\* what the claim says checkArkoseStatus returns for a reply
ClaimedStatus(reply) ==
    IF \/ reply.net = "error"
       \/ reply.json = "invalid"
       \/ reply.data = "null"
       \/ reply.status = "absent"
       \/ reply.indicator = "absent"
    THEN FALSE
    ELSE reply.indicator # "critical"

\* C10 (as claimed): checkArkoseStatus returns false when the endpoint is
\* unreachable or its body cannot be parsed, a body without a
\* status.indicator field included, false when the indicator is "critical",
\* and true for every other indicator.
C10_HealthVerdict ==
    lastHealthReply # NoHealthReply =>
        lastHealthy = (IF ClaimedStatus(lastHealthReply) THEN "true" ELSE "false")

\* the latest verify reply answers the latest verify attempt, and every
\* health check so far reported healthy
LatestAttemptAnswered ==
    /\ Count(trace, "verify:ok") + Count(trace, "verify:throw") = currentRetry + 1
    /\ AllHealthy

\* C14 (as claimed): when the first k attempts failed with the platform
\* healthy after each and attempt k+1 returned a parseable response, the
\* chain made exactly k+1 verify attempts and k health checks, all with the
\* token the handler read, and returned {verified: solved is truthy,
\* platformHealthy: true}.
C14_RetryThenParseable ==
    (env.verifyMaxRetryCount >= 0 /\ Parseable(lastVerifyReply) /\ LatestAttemptAnswered) =>
        /\ verifyAttempts = currentRetry + 1
        /\ healthChecks = currentRetry
        /\ token = getCookie(request.cookie, CookieName).value
        /\ verifyStatus = [returned |-> TRUE, verified |-> SolvedTruthy(lastVerifyReply),
                           arkoseStatus |-> TRUE]

\* Where the chain does so: the same with a parseable response whose JSON
\* value is not null.
NonNullAfterRetries ==
    (env.verifyMaxRetryCount >= 0 /\ Parseable(lastVerifyReply)
        /\ lastVerifyReply.data # "null" /\ LatestAttemptAnswered) =>
        /\ verifyAttempts = currentRetry + 1
        /\ healthChecks = currentRetry
        /\ currentRetry <= env.verifyMaxRetryCount
        /\ token = getCookie(request.cookie, CookieName).value
        /\ verifyStatus = [returned |-> TRUE, verified |-> SolvedTruthy(lastVerifyReply),
                           arkoseStatus |-> TRUE]

\* C15 (as claimed): a GET request makes no verify call, no health check
\* and no redirect; it ends by returning the injected origin response, after
\* exactly two origin fetches with data exchange enabled and exactly one
\* with it disabled.
C15_GetInjects ==
    (request.method = "GET" /\ pc # "start") =>
        /\ verifyAttempts = 0
        /\ healthChecks = 0
        /\ result.kind # "redirect"
        /\ pc # "threw"
        /\ pc = "done" =>
              /\ originFetches = (IF env.usingDX THEN 2 ELSE 1)
              /\ result = [kind |-> "origin", status |-> originResponse.status,
                           injected |-> originResponse.hasBody]

\* Where the GET path is reached: a GET request never verifies, checks the
\* platform or redirects, and when it returns a response that is the
\* injected origin response, fetched twice with data exchange and once
\* without.
GetPathResponse ==
    request.method = "GET" =>
        /\ verifyAttempts = 0
        /\ healthChecks = 0
        /\ result.kind # "redirect"
        /\ originFetches <= (IF env.usingDX THEN 2 ELSE 1)
        /\ pc = "done" =>
              /\ originFetches = (IF env.usingDX THEN 2 ELSE 1)
              /\ result = [kind |-> "origin", status |-> originResponse.status,
                           injected |-> originResponse.hasBody]

\* the request fails verification and the failure is enforced
EnforcedFailure ==
    /\ request.method # "GET"
    /\ env.tokenEnforcement
    /\ \/ NoToken
       \/ /\ verifyStatus.returned
          /\ ~verifyStatus.verified
          /\ ~(~verifyStatus.arkoseStatus /\ env.failOpen)

\* C16 (as claimed): an invocation ends with the 301 redirect to errorUrl
\* only for a non-GET request with tokenEnforcement on that carried no token
\* or whose verification returned verified = false without the fail-open
\* condition; in every other terminating case it ends with the origin
\* response, status unchanged.
C16_RedirectOnlyEnforced ==
    /\ result.kind = "redirect" => (pc = "done" /\ result = handleFailure /\ EnforcedFailure)
    /\ pc \in {"done", "threw"} =>
          IF EnforcedFailure
          THEN pc = "done" /\ result = handleFailure /\ originFetches = 0
          ELSE /\ pc = "done"
               /\ result.kind = "origin"
               /\ result.status = originResponse.status

\* Where a response is returned: it is the redirect exactly on an enforced
\* failure, and otherwise the origin response with its status.
ResponseRedirectOnlyEnforced ==
    /\ result.kind = "redirect" => (pc = "done" /\ result = handleFailure /\ EnforcedFailure)
    /\ pc = "done" =>
          IF EnforcedFailure
          THEN result = handleFailure /\ originFetches = 0
          ELSE /\ result.kind = "origin"
               /\ OriginAnswered
               /\ result.status = originResponse.status

\* C17: every outcome verifyArkoseToken returns with verified = true has
\* platformHealthy = true, so an outcome that meets the fail-open condition
\* (platform unhealthy) is unverified.
C17_VerifiedImpliesHealthy ==
    verifyStatus.returned =>
        /\ verifyStatus.verified => verifyStatus.arkoseStatus
        /\ ~verifyStatus.arkoseStatus => ~verifyStatus.verified

C17_Witness ==
    /\ verifyStatus = [returned |-> TRUE, verified |-> TRUE, arkoseStatus |-> TRUE]
    /\ currentRetry > 0
    /\ env.failOpen
    /\ Count(trace, "health:true") = currentRetry

(***************************************************************************)
(* getCookie on its own: every header and key over a small alphabet        *)
(***************************************************************************)
\* longest cookie header tried
MaxCookieLen == 5

CookieAlphabet == {"k", "a", "=", ";", " "}

\* every string of at most n characters
StringsUpTo(alphabet, n) == UNION { [1..m -> alphabet] : m \in 0..n }

\* the Cookie header: absent, or any string over the alphabet
CookieInputs == {JSNull} \cup { JSString(h) : h \in StringsUpTo(CookieAlphabet, MaxCookieLen) }

CookieKeys == { <<"k">>, <<"a", "k">> }

\* no handler invocation is running
HandlerIdle ==
    /\ request = [method |-> "GET", cookie |-> JSNull]
    /\ env = [tokenEnforcement |-> FALSE, failOpen |-> FALSE, usingDX |-> FALSE,
              secretKeyBase64 |-> "set", verifyMaxRetryCount |-> 0]
    /\ pc = "idle"
    /\ token = <<>>
    /\ currentRetry = 0
    /\ verifyStatus = NoVerifyStatus
    /\ originResponse = NoResponse
    /\ result = NoResult
    /\ trace = <<>>
    /\ lastVerifyReply = NoVerifyReply
    /\ lastHealthReply = NoHealthReply
    /\ lastHealthy = "none"

CookieInit ==
    /\ HandlerIdle
    /\ cookie \in [pc : {"call"}, cookieString : CookieInputs, cookieKey : CookieKeys,
                   value : {JSNull}]
    /\ chain = ChainIdle
    /\ conc = ConcIdle
    /\ client = ClientIdle

\* one call getCookie(cookieString, cookieKey)
GetCookieCall ==
    /\ cookie.pc = "call"
    /\ cookie' = [cookie EXCEPT !.pc = "returned",
                                !.value = getCookie(cookie.cookieString, cookie.cookieKey)]
    /\ UNCHANGED <<handlerVars, chain, conc, client>>

CookieNext == GetCookieCall

SpecCookie == CookieInit /\ [][CookieNext]_vars

\* the first "; "-delimited segment of the header that contains the key, <<>> if none
FirstSegmentWith(cookieString, cookieKey) ==
    IF cookieString.type # "string"
    THEN <<>>
    ELSE LET segments == Split(cookieString.value, <<";", " ">>)
             t == FindIncluding(segments, cookieKey)
         IN  IF t = 0 THEN <<>> ELSE segments[t]

\* everything of the segment after its first "key="
AfterFirstKeyEquals(segment, cookieKey) ==
    LET i == IndexOf(segment, cookieKey \o <<"=">>)
    IN  SubSeq(segment, i + Len(cookieKey) + 1, Len(segment))

\* C11 (as claimed): getCookie(H, K) returns the exact substring that
\* follows the first "K=" in the first "; "-delimited segment containing K,
\* whole even when it contains "K=" again; null when the header is absent
\* or no segment contains K; and never a value that is neither null nor a
\* string.
C11_ExactValue ==
    cookie.pc = "returned" =>
        LET segment == FirstSegmentWith(cookie.cookieString, cookie.cookieKey)
        IN  IF segment = <<>>
            THEN cookie.value = JSNull
            ELSE IF Includes(segment, cookie.cookieKey \o <<"=">>)
            THEN cookie.value = JSString(AfterFirstKeyEquals(segment, cookie.cookieKey))
            ELSE cookie.value.type \in {"null", "string"}

\* What getCookie does return: null when the header is absent or no segment
\* contains K; undefined when the first segment containing K has no "K=";
\* otherwise the part of that segment between its first "K=" and its second
\* "K=" (or its end).
GetCookieBehaviour ==
    cookie.pc = "returned" =>
        LET segment == FirstSegmentWith(cookie.cookieString, cookie.cookieKey)
            keyEquals == cookie.cookieKey \o <<"=">>
        IN  IF segment = <<>>
            THEN cookie.value = JSNull
            ELSE IF ~Includes(segment, keyEquals)
            THEN cookie.value = JSUndefined
            ELSE LET rest == AfterFirstKeyEquals(segment, cookie.cookieKey)
                     j == IndexOf(rest, keyEquals)
                 IN  cookie.value =
                        JSString(IF j = 0 THEN rest ELSE SubSeq(rest, 1, j - 1))

(***************************************************************************)
(* parseNumber and the retry chain it configures, with every verify POST   *)
(* failing and every health check healthy                                  *)
(***************************************************************************)
\* longest verifyMaxRetryCount setting tried
MaxNumLen == 2

NumAlphabet == {"-", "1", "2", "a"}

\* env.verifyMaxRetryCount: unset, or any string over the alphabet
NumTexts == {JSUndefined} \cup { JSString(t) : t \in StringsUpTo(NumAlphabet, MaxNumLen) }

DigitValue(c) ==
    CASE c = "0" -> 0 [] c = "1" -> 1 [] c = "2" -> 2 [] c = "3" -> 3 [] c = "4" -> 4
      [] c = "5" -> 5 [] c = "6" -> 6 [] c = "7" -> 7 [] c = "8" -> 8 [] c = "9" -> 9

IsDigit(c) == c \in {"0", "1", "2", "3", "4", "5", "6", "7", "8", "9"}

RECURSIVE SkipSpaces(_)
SkipSpaces(s) ==
    IF s # <<>> /\ Head(s) = " " THEN SkipSpaces(Tail(s)) ELSE s

RECURSIVE LeadingDigits(_)
LeadingDigits(s) ==
    IF s # <<>> /\ IsDigit(Head(s)) THEN <<Head(s)>> \o LeadingDigits(Tail(s)) ELSE <<>>

RECURSIVE DecimalValue(_)
DecimalValue(digits) ==
    IF digits = <<>> THEN 0
    ELSE 10 * DecimalValue(SubSeq(digits, 1, Len(digits) - 1))
         + DigitValue(digits[Len(digits)])

\* parseInt(value, 10): leading blanks, an optional sign, then the longest
\* run of digits; NaN when there is no digit (undefined reads "undefined")
ParseInt(value) ==
    IF value.type # "string"
    THEN [nan |-> TRUE, n |-> 0]
    ELSE LET s == SkipSpaces(value.value)
             negative == s # <<>> /\ Head(s) = "-"
             unsigned == IF s # <<>> /\ Head(s) \in {"-", "+"} THEN Tail(s) ELSE s
             digits == LeadingDigits(unsigned)
         IN  IF digits = <<>>
             THEN [nan |-> TRUE, n |-> 0]
             ELSE [nan |-> FALSE,
                   n |-> IF negative THEN 0 - DecimalValue(digits) ELSE DecimalValue(digits)]

parseNumber(value) == IF ParseInt(value).nan THEN 0 ELSE ParseInt(value).n

\* the largest count a setting of NumTexts parses to; a retry counter above
\* it can never again equal the configured count, so the counter is not
\* followed further
ChainCap ==
    (CHOOSE n \in { parseNumber(t) : t \in NumTexts } :
        \A t \in NumTexts : parseNumber(t) <= n) + 1

ChainInit ==
    /\ HandlerIdle
    /\ cookie = CookieIdle
    /\ chain \in { [pc |-> "verify", text |-> t, verifyMaxRetryCount |-> parseNumber(t),
                    currentRetry |-> 0, attempts |-> 1] : t \in NumTexts }
    /\ conc = ConcIdle
    /\ client = ClientIdle

\* the verify POST fails: the catch block asks for the platform status
ChainVerifyFails ==
    /\ chain.pc = "verify"
    /\ chain' = [chain EXCEPT !.pc = "health"]
    /\ UNCHANGED <<handlerVars, cookie, conc, client>>

\* the platform is reported healthy: return, or recurse with currentRetry + 1
ChainHealthy ==
    /\ chain.pc = "health"
    /\ IF CatchDecision(TRUE, chain.currentRetry, chain.verifyMaxRetryCount) = "return"
       THEN chain' = [chain EXCEPT !.pc = "returned"]
       ELSE chain' = [chain EXCEPT
                        !.pc = "verify",
                        !.currentRetry = IF @ < ChainCap THEN @ + 1 ELSE @,
                        !.attempts = IF @ < ChainCap + 1 THEN @ + 1 ELSE @]
    /\ UNCHANGED <<handlerVars, cookie, conc, client>>

ChainNext ==
    \/ ChainVerifyFails
    \/ ChainHealthy

\* every outbound call is answered and the continuation runs
SpecChain == ChainInit /\ [][ChainNext]_vars /\ WF_vars(ChainNext)

\* C13 (as claimed): for every count parseNumber can produce, a chain in
\* which every verify attempt fails and every health check is healthy
\* returns after finitely many verify attempts.
C13_ChainReturns == <>(chain.pc = "returned")

\* Where the chain is bounded: for a count that is not negative it returns,
\* after exactly verifyMaxRetryCount + 1 verify attempts.
NonNegativeChainReturns ==
    /\ chain.verifyMaxRetryCount >= 0 => chain.attempts <= chain.verifyMaxRetryCount + 1
    /\ chain.pc = "returned" =>
          /\ chain.verifyMaxRetryCount >= 0
          /\ chain.attempts = chain.verifyMaxRetryCount + 1

\* parseNumber as section 8 of the specification samples it: 0 for a text
\* without leading digits, the number for a numeric text
ParseNumberSamples ==
    /\ parseNumber(JSString(<<"a", "b", "c">>)) = 0
    /\ parseNumber(JSString(<<"4", "2">>)) = 42
    /\ parseNumber(JSString(<<>>)) = 0
    /\ parseNumber(JSString(<<"-", "1">>)) = 0 - 1
    /\ parseNumber(JSUndefined) = 0

(***************************************************************************)
(* The injected client script: the login form, the enforcement callbacks   *)
(* and the script's own checkArkoseStatus                                  *)
(***************************************************************************)
\* largest scriptMaxRetryCount the model configures
MaxScriptRetry == 2

\* challenge errors followed in one page
MaxErrors == 2

\* user submit events followed in one page
MaxSubmits == 2

NoSubmit == [seen |-> FALSE, ready |-> FALSE, completed |-> FALSE, prevented |-> FALSE]

NoError == [seen |-> FALSE, healthy |-> FALSE, retry |-> 0]

\* the page after the script's top level ran: setupForm() disabled the
\* submit button and hooked the form, createArkoseScript() started loading
\* api.js
ClientStart(retryMax) ==
    [pc |-> "loading",
     arkoseRetryMax |-> retryMax,
     arkoseRetry |-> 0,
     arkoseReady |-> FALSE,
     arkoseResetting |-> FALSE,
     arkoseComplete |-> FALSE,
     buttonDisabled |-> TRUE,
     tokenCookie |-> "none",
     errorCookie |-> "none",
     challenge |-> "idle",
     postedBy |-> "none",
     failure |-> "none",
     completedRan |-> FALSE,
     errorRan |-> FALSE,
     resets |-> 0,
     errors |-> 0,
     submits |-> 0,
     lastSubmit |-> NoSubmit,
     lastError |-> NoError]

ClientInit ==
    /\ HandlerIdle
    /\ cookie = CookieIdle
    /\ chain = ChainIdle
    /\ conc = ConcIdle
    /\ client \in { ClientStart(n) : n \in 0..MaxScriptRetry }

\* the script's checkArkoseStatus: what the callback is called with, "true"
\* or "false", or "throws" when the readystatechange handler throws before
\* it calls the callback (JSON.parse or res.status.indicator)
ClientStatus(httpOk, reply) ==
    IF reply.net = "error" THEN "false"
    ELSE IF ~httpOk THEN "false"
    ELSE IF reply.json = "invalid" \/ reply.data = "null" \/ reply.status = "absent"
    THEN "throws"
    ELSE IF reply.indicator = "critical" THEN "false" ELSE "true"

\* isHealthy && arkoseRetry < arkoseMaxRetryCount: the script declares
\* arkoseRetryMax, so reading arkoseMaxRetryCount throws a ReferenceError
\* whenever isHealthy lets the right operand be evaluated
RetryCondition(isHealthy, arkoseRetry, arkoseRetryMax) ==
    IF isHealthy THEN "throws" ELSE "false"

\* mutant: the submit listener only looks at arkoseReady
SubmitListener_readyOnly(arkoseReady, arkoseComplete) ==
    IF ~arkoseReady THEN "prevent" ELSE "post"

\* the submit listener of setupForm: "prevent", "run" (prevent and open the
\* challenge) or "post" (the default action goes ahead)
SubmitListener(arkoseReady, arkoseComplete) ==
    IF ~arkoseReady THEN "prevent"
    ELSE IF ~arkoseComplete THEN "run"
    ELSE "post"

\* handleError(error)
HandleErrorIn(c) ==
    [c EXCEPT !.arkoseComplete = TRUE,
              !.tokenCookie = "cleared",
              !.errorCookie = "error",
              !.errorRan = TRUE]

\* api.js loaded and called setupEnforcement
SetupEnforcement ==
    /\ client.pc = "loading"
    /\ client' = [client EXCEPT !.pc = "active"]
    /\ UNCHANGED <<handlerVars, cookie, chain, conc>>

\* the onReady callback
OnReady ==
    /\ client.pc = "active"
    /\ client' = [client EXCEPT
                    !.arkoseReady = TRUE,
                    !.buttonDisabled = FALSE,
                    !.arkoseResetting = FALSE,
                    !.challenge = IF client.arkoseResetting THEN "running"
                                  ELSE IF @ = "resetting" THEN "idle" ELSE @,
                    !.tokenCookie = "none",
                    !.errorCookie = "none"]
    /\ UNCHANGED <<handlerVars, cookie, chain, conc>>

\* a submit event on the form
UserSubmit ==
    /\ client.pc \in {"loading", "active"}
    /\ client.submits < MaxSubmits
    /\ LET outcome == SubmitListener(client.arkoseReady, client.arkoseComplete)
           seen == [seen |-> TRUE, ready |-> client.arkoseReady,
                    completed |-> client.completedRan, prevented |-> outcome # "post"]
       IN  client' = [client EXCEPT
                        !.submits = @ + 1,
                        !.lastSubmit = seen,
                        !.challenge = IF outcome = "run" THEN "running" ELSE @,
                        !.pc = IF outcome = "post" THEN "posted" ELSE @,
                        !.postedBy = IF outcome = "post" THEN "submit" ELSE @]
    /\ UNCHANGED <<handlerVars, cookie, chain, conc>>

\* the onCompleted callback, with or without response.token
OnCompleted ==
    /\ client.pc = "active"
    /\ \E hasToken \in BOOLEAN :
        LET done == [client EXCEPT !.arkoseComplete = TRUE, !.completedRan = TRUE]
            stored == IF hasToken THEN [done EXCEPT !.tokenCookie = "token"]
                      ELSE HandleErrorIn(done)
        IN  client' = [stored EXCEPT !.pc = "posted", !.postedBy = "onCompleted",
                                     !.challenge = "idle"]
    /\ UNCHANGED <<handlerVars, cookie, chain, conc>>

\* the onError callback: checkArkoseStatus, then retry or give up
OnError ==
    /\ client.pc = "active"
    /\ client.errors < MaxErrors
    /\ \E httpOk \in BOOLEAN, reply \in HealthReplies :
        LET status == ClientStatus(httpOk, reply)
            noted == [client EXCEPT
                        !.errors = @ + 1,
                        !.lastError = [seen |-> TRUE, healthy |-> status = "true",
                                       retry |-> client.arkoseRetry]]
        IN  IF status = "throws"
            THEN client' = [noted EXCEPT !.failure = "status"]
            ELSE LET condition == RetryCondition(status = "true", client.arkoseRetry,
                                                 client.arkoseRetryMax)
                 IN  IF condition = "throws"
                     THEN client' = [noted EXCEPT !.failure = "ReferenceError"]
                     ELSE IF condition = "true"
                     THEN client' = [noted EXCEPT
                                        !.arkoseReady = FALSE,
                                        !.arkoseResetting = TRUE,
                                        !.challenge = "resetting",
                                        !.resets = @ + 1,
                                        !.arkoseRetry = @ + 1]
                     ELSE client' = [HandleErrorIn(noted) EXCEPT
                                        !.buttonDisabled = FALSE,
                                        !.pc = "posted",
                                        !.postedBy = "onError"]
    /\ UNCHANGED <<handlerVars, cookie, chain, conc>>

ClientNext ==
    \/ SetupEnforcement
    \/ OnReady
    \/ UserSubmit
    \/ OnCompleted
    \/ OnError

SpecClient == ClientInit /\ [][ClientNext]_vars

\* C18 (as claimed): after a challenge error, while the platform is healthy
\* and fewer than scriptMaxRetryCount retries were made, the challenge is
\* reset and retried; otherwise the error is recorded in the error cookie,
\* the token cookie is cleared and the form is submitted; there are never
\* more than scriptMaxRetryCount retries and the callback never ends in a
\* runtime failure.
C18_ErrorRetriesThenSubmits ==
    /\ client.failure = "none"
    /\ client.resets <= client.arkoseRetryMax
    /\ (client.lastError.seen /\ client.errors > 0 /\ client.pc # "loading") =>
          IF client.lastError.healthy /\ client.lastError.retry < client.arkoseRetryMax
          THEN client.arkoseRetry = client.lastError.retry + 1
          ELSE client.errorRan \/ client.completedRan

\* What the error callback does: with the platform reported unhealthy the
\* error is recorded, the token cookie cleared and the form submitted;
\* otherwise the callback ends in a runtime failure; the challenge is never
\* reset.
UnhealthyErrorSubmits ==
    /\ client.resets = 0
    /\ client.postedBy = "onError" =>
          /\ ~client.lastError.healthy
          /\ client.errorCookie = "error"
          /\ client.tokenCookie = "cleared"
    /\ client.lastError.seen =>
          \/ client.failure # "none"
          \/ client.postedBy = "onError"
          \/ client.postedBy = "onCompleted"

\* C19: the form is posted only after onCompleted or handleError ran, and a
\* submit event that arrives before the challenge is ready, or before it
\* has completed, is prevented and posts nothing.
C19_PostOnlyAfterOutcome ==
    /\ client.pc = "posted" => (client.completedRan \/ client.errorRan)
    /\ client.postedBy = "submit" => (client.lastSubmit.ready /\ client.lastSubmit.completed)
    /\ (client.lastSubmit.seen /\ (~client.lastSubmit.ready \/ ~client.lastSubmit.completed)) =>
          /\ client.lastSubmit.prevented
          /\ client.postedBy # "submit"

C19_Witness ==
    /\ client.pc = "posted"
    /\ client.postedBy = "onCompleted"
    /\ client.tokenCookie = "token"
    /\ client.lastSubmit.seen
    /\ client.lastSubmit.ready
    /\ client.lastSubmit.prevented
    /\ client.submits = MaxSubmits

(***************************************************************************)
(* Two handler invocations served concurrently, interleaved at their       *)
(* suspension points                                                       *)
(***************************************************************************)
\* largest verifyMaxRetryCount configured for the concurrent invocations
ConcMaxRetry == 1

Invocations == {1, 2}

ConcRequests ==
    { [method |-> "GET", cookie |-> JSNull],
      [method |-> "POST", cookie |-> JSString(<<"k", "=", "t">>)] }

ConcEnvs ==
    [tokenEnforcement : BOOLEAN,
     failOpen : BOOLEAN,
     usingDX : BOOLEAN,
     secretKeyBase64 : {"unset", "set"},
     verifyMaxRetryCount : 0..ConcMaxRetry]

\* the replies tried: a failing, an unsolved and a solved verify reply; a
\* critical and a healthy status; a failing and an ordinary origin reply
ConcVerifyReplies == { r \in VerifyReplies : r.net = "error" \/ r.session_details }

ConcHealthReplies == { r \in HealthReplies : r.indicator \in {"critical", "none"} }

ConcOriginReplies == { r \in OriginReplies : r.net = "error" \/ (r.status = 200 /\ r.hasBody) }

RepliesFor(position) ==
    IF position = "verify" THEN ConcVerifyReplies
    ELSE IF position = "health" THEN ConcHealthReplies
    ELSE ConcOriginReplies

\* an invocation that has not begun
Arrived(req) ==
    [request |-> req, pc |-> "start", verifyStatus |-> NoVerifyStatus,
     result |-> NoResult, calls |-> <<>>, replies |-> <<>>]

\* the handler up to its first outbound call, as a function of the request
\* and the environment: the invocation's locals and its retry counter
LocalStart(l, e) ==
    IF e.secretKeyBase64 = "unset"
    THEN [local |-> [l EXCEPT !.pc = "threw"], retry |-> 0]
    ELSE IF l.request.method = "GET"
    THEN [local |-> [l EXCEPT !.pc = IF e.usingDX THEN "get_scan" ELSE "get_fetch",
                              !.calls = Append(@, "origin")],
          retry |-> 0]
    ELSE IF TokenPresent(getCookie(l.request.cookie, CookieName))
    THEN [local |-> [l EXCEPT !.pc = "verify", !.calls = Append(@, "verify")], retry |-> 0]
    ELSE IF HandleNoToken(e.tokenEnforcement) = "redirect"
    THEN [local |-> [l EXCEPT !.pc = "done", !.result = handleFailure], retry |-> 0]
    ELSE [local |-> [l EXCEPT !.pc = "origin", !.calls = Append(@, "origin")], retry |-> 0]

\* the handler after verifyArkoseToken returned status
LocalAfterChain(l, status, e) ==
    LET returned == [l EXCEPT !.verifyStatus =
                        [returned |-> TRUE, verified |-> status.verified,
                         arkoseStatus |-> status.arkoseStatus]]
    IN  IF HandleVerifyStatus(status.verified, status.arkoseStatus,
                              e.failOpen, e.tokenEnforcement) = "fetch"
        THEN [returned EXCEPT !.pc = "origin", !.calls = Append(@, "origin")]
        ELSE [returned EXCEPT !.pc = "done", !.result = handleFailure]

\* the handler from one suspension point to the next, as a function of its
\* locals, its retry counter, the environment and the reply it awaited
LocalStep(l, retry, e, reply) ==
    LET heard == [l EXCEPT !.replies = Append(@, reply)]
    IN  IF l.pc = "verify"
        THEN IF VerifyThrows(reply)
             THEN [local |-> [heard EXCEPT !.pc = "health", !.calls = Append(@, "health")],
                   retry |-> retry]
             ELSE [local |-> LocalAfterChain(heard, TryOutcome(reply), e), retry |-> retry]
        ELSE IF l.pc = "health"
        THEN LET arkoseStatus == checkArkoseStatus(reply)
             IN  IF CatchDecision(arkoseStatus, retry, e.verifyMaxRetryCount) = "retry"
                 THEN [local |-> [heard EXCEPT !.pc = "verify", !.calls = Append(@, "verify")],
                       retry |-> retry + 1]
                 ELSE [local |-> LocalAfterChain(heard, [verified |-> FALSE,
                                                        arkoseStatus |-> arkoseStatus], e),
                       retry |-> retry]
        ELSE IF reply.net = "error"
        THEN [local |-> [heard EXCEPT !.pc = "threw"], retry |-> retry]
        ELSE IF l.pc = "get_scan"
        THEN [local |-> [heard EXCEPT !.pc = "get_fetch", !.calls = Append(@, "origin")],
              retry |-> retry]
        ELSE IF l.pc = "get_fetch"
        THEN [local |-> [heard EXCEPT !.pc = "done", !.result = injectArkose(reply)],
              retry |-> retry]
        ELSE [local |-> [heard EXCEPT !.pc = "done", !.result = checkResponse(reply)],
              retry |-> retry]

\* mutant: the retry counter is one module-level variable
RetryCell_shared(i) == 1

\* where invocation i keeps currentRetry: a parameter of its own activation
\* of verifyArkoseToken
RetryCell(i) == i

Waiting(l) == l.pc \in {"verify", "health", "origin", "get_scan", "get_fetch"}

ConcInit ==
    /\ HandlerIdle
    /\ cookie = CookieIdle
    /\ chain = ChainIdle
    /\ client = ClientIdle
    /\ \E e \in ConcEnvs, reqs \in [Invocations -> ConcRequests] :
        conc = [pc |-> "serving",
                env |-> e,
                inv |-> [i \in Invocations |-> Arrived(reqs[i])],
                cell |-> [i \in Invocations |-> 0],
                overlap |-> FALSE]

\* invocation i is entered and runs to its first outbound call
InvBegin(i) ==
    /\ conc.pc = "serving"
    /\ conc.inv[i].pc = "start"
    /\ LET r == LocalStart(conc.inv[i], conc.env)
       IN  conc' = [conc EXCEPT
                      !.inv[i] = r.local,
                      !.cell[RetryCell(i)] = r.retry,
                      !.overlap = @ \/ \E j \in Invocations \ {i} : Waiting(conc.inv[j])]
    /\ UNCHANGED <<handlerVars, cookie, chain, client>>

\* the outbound call invocation i awaits settles and i runs to its next one
InvReply(i) ==
    /\ conc.pc = "serving"
    /\ Waiting(conc.inv[i])
    /\ \E reply \in RepliesFor(conc.inv[i].pc) :
        LET r == LocalStep(conc.inv[i], conc.cell[RetryCell(i)], conc.env, reply)
        IN  conc' = [conc EXCEPT
                       !.inv[i] = r.local,
                       !.cell[RetryCell(i)] = r.retry,
                       !.overlap = @ \/ \E j \in Invocations \ {i} : Waiting(conc.inv[j])]
    /\ UNCHANGED <<handlerVars, cookie, chain, client>>

ConcNext ==
    \/ \E i \in Invocations : InvBegin(i)
    \/ \E i \in Invocations : InvReply(i)

SpecConc == ConcInit /\ [][ConcNext]_vars

RECURSIVE RunAlone(_, _, _)
\* the run of one invocation served on its own, from state r over replies
RunAlone(r, e, replies) ==
    IF replies = <<>>
    THEN r
    ELSE RunAlone(LocalStep(r.local, r.retry, e, Head(replies)), e, Tail(replies))

\* what invocation i would be, served alone with the replies it received
Alone(i) ==
    LET l == conc.inv[i]
    IN  IF l.pc = "start"
        THEN [local |-> l, retry |-> 0]
        ELSE RunAlone(LocalStart(Arrived(l.request), conc.env), conc.env, l.replies)

====
